---- MODULE Spec2Model ----
(***************************************************************************)
(* 3D-text: the 3MF exporter (ThreeMFExporter, four revisions kept in the  *)
(* repository), the axis remap transformCoordinates, and the z placement   *)
(* of the text and pill meshes in the App.                                 *)
(*                                                                         *)
(* Lengths are integers in units of 0.001 mm.  A package part name and a   *)
(* relationship or component path is a triple <<prefix, n, suffix>> for    *)
(* the template `${prefix}${n}${suffix}`; a fixed name has n = 0.          *)
(***************************************************************************)
EXTENDS Integers, Sequences, FiniteSets, TLC

VARIABLES
    version,          \* which revision of ThreeMFExporter is constructed
    upAxis,           \* this.options.upAxis
    scene,            \* the meshes of this.scene, in traversal order
    pc,               \* position of export()
    meshes,           \* export(): the local array `meshes`
    trace,            \* stages export() has passed, in order
    result,           \* "none" | "Success" (a Blob) | "Failure" (a throw)
    mainModel,        \* 3D/3dmodel.model: objects with components, build items
    objectModels,     \* 3D/Objects/object_N.model, N |-> its objects
    modelRels,        \* 3D/_rels/3dmodel.model.rels: relationship targets
    projectSettings,  \* Metadata/project_settings.config
    modelSettings,    \* Metadata/model_settings.config: the <part> entries
    files,            \* the zipped package: its part names
    xf,               \* transformCoordinates applied to one vertex
    app,              \* App: product parameters and the placed meshes
    render,           \* a rendering component: inputs, pending font loads, scene
    cl,               \* TextModel: contours in, classified shapes out
    geo,              \* the scale-and-centre step applied to a geometry
    first,            \* the object documents of an earlier export of the scene
    uuids,            \* the p:UUID values generateUUID has returned in one export
    fontFile,         \* fix_fonts.cjs: the font file, its backup, the data before the fix
    flat              \* the path command loop: commands in, contours out

vars == <<version, upAxis, scene, pc, meshes, trace, result, mainModel,
          objectModels, modelRels, projectSettings, modelSettings, files,
          xf, app, render, cl, geo, first, uuids, fontFile, flat>>

exportVars == <<version, upAxis, scene, pc, meshes, trace, result, mainModel,
                objectModels, modelRels, projectSettings, modelSettings, files,
                first>>

-----------------------------------------------------------------------------
(* Bounds *)

MaxMeshes == 2
MaxVerts == 4
MaxIdx == 4
MaxCoord == 3
MaxThickness == 3
MaxOverlap == 3

-----------------------------------------------------------------------------
(* Revisions of the exporter *)

V_assembly == "assembly"        \* one object_3.model holding every mesh
V_objectFiles == "objectFiles"  \* one object_N.model per mesh
V_combined == "combined"        \* one object_1.model, hole cylinder
V_validating == "validating"    \* object_3.model, validateAndCleanGeometry

Versions == {V_assembly, V_objectFiles, V_combined, V_validating}

UpAxes == {"X_UP", "Y_UP", "Z_UP"}

Undefined == 0 - 1

-----------------------------------------------------------------------------
(* The scene: THREE.Object3D children.  A mesh carries a BufferGeometry     *)
(* (position attribute, optional index, optional normal attribute), a       *)
(* material (class, colour, name) and a translation (matrixWorld).          *)

SupportedMaterials == {"MeshBasicMaterial", "MeshPhongMaterial", "MeshStandardMaterial"}

Colors == {30719, 16711680}     \* 0x0077ff, 0xff0000

BaseMesh ==
    [isMesh |-> TRUE, count |-> 3, hasPos |-> TRUE, indexed |-> FALSE, icount |-> 0,
     normal |-> "unit", cls |-> "MeshPhongMaterial", color |-> 30719,
     hole |-> FALSE, position |-> <<0, 0, 0>>]

\* The objects a scene is built from: the base mesh and its one-attribute variants.
SceneObjects ==
    {[BaseMesh EXCEPT !.count = n] : n \in 3..MaxVerts}
    \cup {[BaseMesh EXCEPT !.count = MaxVerts, !.indexed = TRUE, !.icount = k] : k \in 3..MaxIdx}
    \cup {[BaseMesh EXCEPT !.count = MaxVerts, !.indexed = TRUE, !.icount = 2 * 3]}
    \cup {[BaseMesh EXCEPT !.hasPos = FALSE, !.count = 0]}
    \cup {[BaseMesh EXCEPT !.normal = v] : v \in {"absent", "skewed"}}
    \cup {[BaseMesh EXCEPT !.cls = "MeshLambertMaterial"]}
    \cup {[BaseMesh EXCEPT !.hole = TRUE, !.position = <<0 - 10000, 0, 1000>>]}
    \cup {[BaseMesh EXCEPT !.position = <<5000, 0, 2000>>]}
    \cup {[BaseMesh EXCEPT !.isMesh = FALSE]}

Scenes == UNION {[1..n -> SceneObjects] : n \in 0..MaxMeshes}

\* positions.getX/Y/Z(i) of the position attribute
Vtx(i) == <<3 * i + 1, 3 * i + 2, 3 * i + 3>>

\* indices.getX(k): the stored index, or undefined past the end of the array
IndexGetX(m, k) == IF k < m.icount THEN k % m.count ELSE Undefined

\* the values i takes in `for (let i = 0; i < n; i += 3)`
LoopIndices(n) == [k \in 1..(n + 2) \div 3 |-> 3 * (k - 1)]

-----------------------------------------------------------------------------
(* transformCoordinates: the object literal each branch returns, field by   *)
(* field ({ x, z, y: -y } is the object with x = x, z = z, y = -y).         *)

transformCoordinates(axis, x, y, z) ==
    IF axis = "Y_UP" THEN [x |-> x, y |-> y, z |-> z]
    ELSE IF axis = "Z_UP" THEN [x |-> x, z |-> z, y |-> 0 - y]
    ELSE IF axis = "X_UP" THEN [y |-> y, z |-> z, x |-> x]
    ELSE [x |-> x, y |-> y, z |-> z]

\* generateVerticesXML: one <vertex> per position, remapped (toFixed writes an
\* integer coordinate exactly)
generateVerticesXML(m, axis) ==
    [k \in 1..m.count |->
        LET p == Vtx(k - 1)
            coords == transformCoordinates(axis, p[1], p[2], p[3])
        IN <<coords.x, coords.y, coords.z>>]

IndexedTriangle(m, i) == <<IndexGetX(m, i), IndexGetX(m, i + 1), IndexGetX(m, i + 2)>>

PlainTriangle(i) == <<i, i + 1, i + 2>>

\* generateTrianglesXML of the assembly and objectFiles revisions: no bound check
generateTrianglesXML(m) ==
    IF m.indexed
    THEN LET is == LoopIndices(m.icount)
         IN [k \in 1..Len(is) |-> IndexedTriangle(m, is[k])]
    ELSE LET is == LoopIndices(m.count)
         IN [k \in 1..Len(is) |-> PlainTriangle(is[k])]

\* generateTrianglesXML of the validating revision: only the non-indexed branch
\* checks v2 < positions.count && v3 < positions.count
generateTrianglesXMLChecked(m) ==
    IF m.indexed
    THEN generateTrianglesXML(m)
    ELSE LET is == SelectSeq(LoopIndices(m.count),
                             LAMBDA i : i + 1 < m.count /\ i + 2 < m.count)
         IN [k \in 1..Len(is) |-> PlainTriangle(is[k])]

\* the triangle loops of generateCombinedGeometryXML: both branches check i + 2 < count
CombinedTriangles(m) ==
    IF m.indexed
    THEN LET is == SelectSeq(LoopIndices(m.icount), LAMBDA i : i + 2 < m.icount)
         IN [k \in 1..Len(is) |-> IndexedTriangle(m, is[k])]
    ELSE LET is == SelectSeq(LoopIndices(m.count), LAMBDA i : i + 2 < m.count)
         IN [k \in 1..Len(is) |-> PlainTriangle(is[k])]

\* vertex.applyMatrix4(matrixWorld), matrixWorld being a translation
applyMatrix4(p, m) == <<p[1] + m.position[1], p[2] + m.position[2], p[3] + m.position[3]>>

\* the vertex loop of generateCombinedGeometryXML: world position, no remap
CombinedVertices(m) == [k \in 1..m.count |-> applyMatrix4(Vtx(k - 1), m)]

segments == 16

\* Math.cos(angle) * radius and Math.sin(angle) * radius for angle = i/16 * 2 PI,
\* radius 1.5 mm, rounded to 0.001 mm; entry i + 1 is for loop index i
CosRadius ==
    <<1500, 1386, 1061, 574, 0, 0 - 574, 0 - 1061, 0 - 1386, 0 - 1500,
      0 - 1386, 0 - 1061, 0 - 574, 0, 574, 1061, 1386, 1500>>

SinRadius ==
    <<0, 574, 1061, 1386, 1500, 1386, 1061, 574, 0,
      0 - 574, 0 - 1061, 0 - 1386, 0 - 1500, 0 - 1386, 0 - 1061, 0 - 574, 0>>

\* createCylinderGeometry: top and bottom ring vertices, side and cap triangles
createCylinderGeometry(m) ==
    LET ring == [k \in 1..2 * (segments + 1) |->
                    LET i == (k - 1) \div 2
                    IN <<CosRadius[i + 1], SinRadius[i + 1],
                         IF k % 2 = 1 THEN 1000 ELSE 0 - 1000>>]
        side == [k \in 1..2 * segments |->
                    LET i == (k - 1) \div 2
                        top1 == i * 2
                        top2 == ((i + 1) % segments) * 2
                        bottom1 == i * 2 + 1
                        bottom2 == ((i + 1) % segments) * 2 + 1
                    IN IF k % 2 = 1 THEN <<top1, bottom1, top2>>
                                    ELSE <<bottom1, bottom2, top2>>]
        caps == [k \in 1..2 * (segments - 2) |->
                    LET i == (k - 1) \div 2 + 1
                        top1 == i * 2
                        top2 == (i + 1) * 2
                        bottom1 == i * 2 + 1
                        bottom2 == (i + 1) * 2 + 1
                    IN IF k % 2 = 1 THEN <<0, top1, top2>>
                                    ELSE <<1, bottom2, bottom1>>]
    IN [vertices |-> [k \in 1..Len(ring) |-> applyMatrix4(ring[k], m)],
        triangles |-> side \o caps]

-----------------------------------------------------------------------------
(* Part names, component paths and relationship targets *)

Part(name) == <<name, 0, "">>

\* the part `3D/Objects/object_${n}.model`
ObjectPart(n) == <<"3D/Objects/object_", n, ".model">>

\* the path `/3D/Objects/object_${n}.model` of a component or relationship
ObjectPath(n) == <<"/3D/Objects/object_", n, ".model">>

\* the package part an absolute path names (the path without its leading slash)
PartOfPath(path) ==
    IF path[1] = "/3D/Objects/object_" THEN ObjectPart(path[2])
    ELSE IF path[1] = "/3D/3dmodel.model" THEN Part("3D/3dmodel.model")
    ELSE path

-----------------------------------------------------------------------------
(* 3D/3dmodel.model *)

generateMainResourcesSection(v, ms) ==
    IF v = V_objectFiles
    THEN [i \in 1..Len(ms) |->
            [id |-> i * 2,
             components |-> <<[path |-> ObjectPath(i), objectid |-> i * 2 - 1]>>]]
    ELSE IF v = V_combined
    THEN <<[id |-> 4,
            components |-> [i \in 1..Len(ms) |-> [path |-> ObjectPath(1), objectid |-> i]]]>>
    ELSE <<[id |-> 3,
            components |-> [i \in 1..Len(ms) |-> [path |-> ObjectPath(3), objectid |-> i]]]>>

generateMainBuildSection(v, ms) ==
    IF v = V_objectFiles THEN [i \in 1..Len(ms) |-> [objectid |-> i * 2]]
    ELSE IF v = V_combined THEN <<[objectid |-> 4]>>
    ELSE <<[objectid |-> 3]>>

-----------------------------------------------------------------------------
(* 3D/Objects/object_N.model *)

\* generateVerticesXML throws 'Geometry has no position attribute'
VerticesThrow(v, ms) ==
    v # V_combined /\ \E i \in 1..Len(ms) : ~ms[i].hasPos

\* one <object> with its <mesh>
ObjectXML(v, m, axis, objectId) ==
    IF v = V_combined
    THEN IF m.hole
         THEN LET cylinderGeometry == createCylinderGeometry(m)
              IN [id |-> objectId, type |-> "other",
                  vertices |-> cylinderGeometry.vertices,
                  triangles |-> cylinderGeometry.triangles]
         ELSE IF m.hasPos
         THEN [id |-> objectId, type |-> "model",
               vertices |-> CombinedVertices(m), triangles |-> CombinedTriangles(m)]
         ELSE [id |-> objectId, type |-> "model", vertices |-> <<>>, triangles |-> <<>>]
    ELSE [id |-> objectId, type |-> "model",
          vertices |-> generateVerticesXML(m, axis),
          triangles |-> IF v = V_validating THEN generateTrianglesXMLChecked(m)
                                            ELSE generateTrianglesXML(m)]

\* generateAssemblyObjectXML, generateCombinedGeometryXML: every mesh in one file
generateAssemblyObjectXML(v, ms, axis) ==
    [i \in 1..Len(ms) |-> ObjectXML(v, ms[i], axis, i)]

\* generateObjectFiles: object_${index + 1}.model holds object id index + 1
generateObjectFiles(v, ms, axis) ==
    [i \in 1..Len(ms) |-> <<ObjectXML(v, ms[i], axis, i)>>]

\* the object model documents of one export, by file number
ObjectDocuments(v, ms, axis) ==
    IF v = V_objectFiles THEN generateObjectFiles(v, ms, axis)
    ELSE IF v = V_combined THEN (1 :> generateAssemblyObjectXML(v, ms, axis))
    ELSE (3 :> generateAssemblyObjectXML(v, ms, axis))

generateModelRelsXML(v) ==
    IF v = V_objectFiles THEN <<ObjectPath(1), ObjectPath(2)>>
    ELSE IF v = V_combined THEN <<ObjectPath(1)>>
    ELSE <<ObjectPath(3)>>

-----------------------------------------------------------------------------
(* Metadata/project_settings.config and Metadata/model_settings.config *)

\* color.getHexString(): the six hexadecimal digits of a 24-bit colour
getHexString(c) ==
    <<(c \div 1048576) % 16, (c \div 65536) % 16, (c \div 4096) % 16,
      (c \div 256) % 16, (c \div 16) % 16, c % 16>>

\* the literals '#FFCC00', '#018001' and the default palette extruderColors
HexFFCC00 == <<15, 15, 12, 12, 0, 0>>

Hex018001 == <<0, 1, 8, 0, 0, 1>>

extruderColors ==
    <<<<15, 14, 12, 6, 0, 0>>, <<0, 0, 8, 6, 13, 6>>,
      <<15, 15, 0, 0, 0, 0>>, <<0, 0, 15, 15, 0, 0>>>>

\* the colour written for one mesh: the material's colour when the material is one
\* of the three supported classes, the default otherwise
MaterialColour(m, default) ==
    IF m.cls \in SupportedMaterials THEN getHexString(m.color) ELSE default

generateProjectSettingsXML(v, ms) ==
    IF v = V_combined
    THEN [extruder_colour |-> <<HexFFCC00>>,
          filament_colour |-> <<HexFFCC00>>,
          filament_map |-> <<1>>]
    ELSE IF v = V_validating
    THEN [extruder_colour |-> [i \in 1..Len(ms) |-> MaterialColour(ms[i], HexFFCC00)],
          filament_colour |-> [i \in 1..Len(ms) |-> MaterialColour(ms[i], HexFFCC00)],
          filament_map |-> [i \in 1..Len(ms) |-> i]]
    ELSE [extruder_colour |-> <<Hex018001>>,
          filament_colour |-> [i \in 1..Len(ms) |->
              MaterialColour(ms[i], extruderColors[((i - 1) % Len(extruderColors)) + 1])],
          filament_map |-> [i \in 1..Len(ms) |-> i]]

\* Math.floor((mesh.geometry.attributes.position?.count || 0) / 3)
faceCount(m) == (IF m.hasPos THEN m.count ELSE 0) \div 3

\* the <part> entries; the objectFiles revision writes no mesh_stat
generateModelSettingsXML(v, ms) ==
    [i \in 1..Len(ms) |->
        IF v = V_objectFiles
        THEN [object |-> i * 2, id |-> i, subtype |-> "normal_part", extruder |-> i,
              face_count |-> Undefined]
        ELSE IF v = V_combined /\ ms[i].hole
        THEN [object |-> 4, id |-> i, subtype |-> "negative_part", extruder |-> 0,
              face_count |-> faceCount(ms[i])]
        ELSE [object |-> IF v = V_combined THEN 4 ELSE 3, id |-> i,
              subtype |-> "normal_part", extruder |-> i,
              face_count |-> faceCount(ms[i])]]

\* the names assigned in `files` before zipSync
PackageParts(v, objects) ==
    {Part("[Content_Types].xml"), Part("_rels/.rels"), Part("3D/3dmodel.model"),
     Part("3D/_rels/3dmodel.model.rels"),
     Part("Metadata/project_settings.config"), Part("Metadata/model_settings.config")}
    \cup {ObjectPart(n) : n \in DOMAIN objects}
    \cup (IF v = V_combined
          THEN {Part("Metadata/cut_information.xml"), Part("Metadata/slice_info.config")}
          ELSE {})

-----------------------------------------------------------------------------
(* validateAndCleanGeometry with ensureManifoldGeometry: reports only; the   *)
(* one change to the geometry is computeVertexNormals.                       *)

\* a clean-up that removes the last triangle from the index
validateAndDropTriangle(m) ==
    IF m.indexed /\ m.icount >= 3 THEN [m EXCEPT !.icount = m.icount - 3] ELSE m

\* a clean-up that drops the last vertex
validateAndDropVertex(m) ==
    IF ~m.hasPos \/ m.count = 0 THEN m ELSE [m EXCEPT !.count = m.count - 1]

validateAndCleanGeometry(m) ==
    IF ~m.hasPos THEN m
    ELSE LET n1 == IF m.normal = "absent" THEN "unit" ELSE m.normal
             n2 == IF m.count < 3 THEN n1
                   ELSE IF n1 = "skewed" THEN "unit" ELSE n1
         IN [m EXCEPT !.normal = n2]

-----------------------------------------------------------------------------
(* The font-load callback of the App: TextGeometry of depth thickness +      *)
(* overlap, centred, and the pill ExtrudeGeometry of depth background        *)
(* thickness.  A product gives its lengths in whole units; z extents are     *)
(* kept in half units so that the centre of an odd depth is an integer.      *)

Products ==
    [backgroundThickness : 1..MaxThickness, textThickness : 1..MaxThickness,
     overlap : 0..MaxOverlap]

NoProduct == [backgroundThickness |-> 0, textThickness |-> 0, overlap |-> 0]

NoMesh == [present |-> FALSE, lo |-> 0, hi |-> 0]

\* the text set on top of the background, with no overlap
PlaceTextOnTop(product) ==
    [present |-> TRUE,
     lo |-> 2 * product.backgroundThickness,
     hi |-> 2 * product.backgroundThickness + 2 * product.textThickness]

\* textGeo.center() and textMesh.position.z = textCenterZ
PlaceText(product) ==
    LET backgroundThickness == product.backgroundThickness
        textThickness == product.textThickness
        overlap == product.overlap
        totalTextDepth == textThickness + overlap
        textStartZ == backgroundThickness - overlap
        textCenterZ2 == 2 * textStartZ + totalTextDepth   \* 2 * textCenterZ
    IN [present |-> TRUE,
        lo |-> textCenterZ2 - totalTextDepth,
        hi |-> textCenterZ2 + totalTextDepth]

\* ExtrudeGeometry spans z in [0, depth]; pillMesh.position.set(0, 0, 0)
PlacePill(product) ==
    [present |-> TRUE, lo |-> 0, hi |-> 2 * product.backgroundThickness]

AppIdle == [selectedProduct |-> NoProduct, builtFor |-> NoProduct,
            textMesh |-> NoMesh, pillMesh |-> NoMesh]

XfIdle == [stage |-> "parked", axis |-> "Y_UP", v |-> <<0, 0, 0>>, out |-> <<0, 0, 0>>]

-----------------------------------------------------------------------------
(* The rendering components.  ThreeScene (with TextMeshGenerator and the     *)
(* fontLoader cache), the App's font-load effect, and the Angular            *)
(* TextModelComponent.  A geometry input is its text, its font, a depth      *)
(* (standing for the depths and offsets) and the scale setting; a mesh is    *)
(* tagged with the number of the request that built it.                      *)

C_ThreeScene == "ThreeScene"

C_App == "App"

C_TextModelComponent == "TextModelComponent"

Components == {C_ThreeScene, C_App, C_TextModelComponent}

MaxChanges == 3

Texts == {"", "a", "b"}

Fonts == {"f1", "f2"}

InputFields == {"text", "font", "depth", "scale"}

InputValues(field) ==
    IF field = "text" THEN Texts
    ELSE IF field = "font" THEN Fonts
    ELSE IF field = "depth" THEN 1..2
    ELSE BOOLEAN

FirstInputs == [text |-> "a", font |-> "f1", depth |-> 1, scale |-> FALSE]

NoRef == 0

RenderIdle ==
    [component |-> C_ThreeScene, inputs |-> FirstInputs, requests |-> <<>>,
     pending |-> <<>>, scene |-> <<>>, fontCache |-> {},
     textMeshRef |-> NoRef, pillMeshRef |-> NoRef,
     lastEvent |-> "none", lastGood |-> <<>>, aborted |-> {},
     changes |-> 0, recomputed |-> TRUE,
     rejected |-> {}, fetched |-> [url \in Fonts |-> 0]]

-----------------------------------------------------------------------------
(* TextModel: the contours of the text's path are classified into shapes     *)
(* with holes and extruded.  Two revisions: "grouped" tells holes by the     *)
(* sign of the area and attaches them by containment; "largest" makes the    *)
(* contour of largest area the one shape and every other contour its hole.   *)
(* A contour is an axis-parallel rectangle with a winding direction.         *)

R_grouped == "grouped"

R_largest == "largest"

Revisions == {R_grouped, R_largest}

MaxContours == 3

\* outlines: a large one, one inside it, one between the two, one beside the
\* large one, and a dot above that one
Outlines ==
    {[x0 |-> 0, y0 |-> 0, x1 |-> 6, y1 |-> 6], [x0 |-> 2, y0 |-> 2, x1 |-> 4, y1 |-> 4],
     [x0 |-> 1, y0 |-> 1, x1 |-> 5, y1 |-> 5],
     [x0 |-> 8, y0 |-> 0, x1 |-> 10, y1 |-> 6], [x0 |-> 8, y0 |-> 8, x1 |-> 10, y1 |-> 10]}

Contours == [box : Outlines, ccw : BOOLEAN]

\* the contours of a path: each outline drawn at most once
ContourLists ==
    {cs \in UNION {[1..n -> Contours] : n \in 0..MaxContours} :
        \A i, j \in 1..Len(cs) : i # j => cs[i].box # cs[j].box}

\* shape.getPoints(): the corners in drawing order, from (x0, y0)
getPoints(c) ==
    LET b == c.box
    IN IF c.ccw THEN <<<<b.x0, b.y0>>, <<b.x1, b.y0>>, <<b.x1, b.y1>>, <<b.x0, b.y1>>>>
       ELSE <<<<b.x0, b.y0>>, <<b.x0, b.y1>>, <<b.x1, b.y1>>, <<b.x1, b.y0>>>>

RECURSIVE Sum(_, _)
Sum(f, n) == IF n = 0 THEN 0 ELSE f[n] + Sum(f, n - 1)

\* the shoelace sum over the points, halved
calculateShapeArea(c) ==
    LET points == getPoints(c)
        term == [i \in 1..Len(points) |->
                    LET j == (i % Len(points)) + 1
                    IN points[i][1] * points[j][2] - points[j][1] * points[i][2]]
    IN Sum(term, Len(points)) \div 2

Abs(n) == IF n < 0 THEN 0 - n ELSE n

\* bbox.expandByPoint over the points
Box2(c) ==
    LET points == getPoints(c)
        xs == {points[i][1] : i \in 1..Len(points)}
        ys == {points[i][2] : i \in 1..Len(points)}
    IN [minx |-> CHOOSE x \in xs : \A o \in xs : x <= o,
        maxx |-> CHOOSE x \in xs : \A o \in xs : x >= o,
        miny |-> CHOOSE y \in ys : \A o \in ys : y <= o,
        maxy |-> CHOOSE y \in ys : \A o \in ys : y >= o]

\* the four comparisons of the hole's box against the shape's box
BoxContained(holeBBox, shapeBBox) ==
    /\ holeBBox.minx >= shapeBBox.minx
    /\ holeBBox.maxx <= shapeBBox.maxx
    /\ holeBBox.miny >= shapeBBox.miny
    /\ holeBBox.maxy <= shapeBBox.maxy

\* ray casting: point.x < (xj - xi) * (point.y - yi) / (yj - yi) + xi, the
\* division cleared with the sign of yj - yi
isPointInShape(c, point) ==
    LET points == getPoints(c)
        n == Len(points)
        intersect(i) ==
            LET j == IF i = 1 THEN n ELSE i - 1
                xi == points[i][1]
                yi == points[i][2]
                xj == points[j][1]
                yj == points[j][2]
            IN /\ (yi > point[2]) # (yj > point[2])
               /\ IF yj - yi > 0
                  THEN (point[1] - xi) * (yj - yi) < (xj - xi) * (point[2] - yi)
                  ELSE (point[1] - xi) * (yj - yi) > (xj - xi) * (point[2] - yi)
    IN Cardinality({i \in 1..n : intersect(i)}) % 2 = 1

\* the "grouped" revision's record of a shape
ShapeInfo(c) ==
    [shape |-> c, area |-> Abs(calculateShapeArea(c)),
     isHole |-> calculateShapeArea(c) > 0, bbox |-> Box2(c)]

\* .sort((a, b) => b.area - a.area): stable, largest area first
RECURSIVE SortByArea(_)
SortByArea(infos) ==
    IF Len(infos) <= 1 THEN infos
    ELSE LET rest == SortByArea(Tail(infos))
             k == Cardinality({i \in 1..Len(rest) : rest[i].area > Head(infos).area})
         IN SubSeq(rest, 1, k) \o <<Head(infos)>> \o SubSeq(rest, k + 1, Len(rest))

Reverse(seq) == [i \in 1..Len(seq) |-> seq[Len(seq) + 1 - i]]

\* a grouping in which a claimed hole stays in the pool
RECURSIVE GroupHolesKeeping(_, _)
GroupHolesKeeping(outers, remainingHoles) ==
    IF outers = <<>> THEN <<>>
    ELSE LET mainShapeInfo == Head(outers)
             Taken(holeInfo) ==
                 /\ BoxContained(holeInfo.bbox, mainShapeInfo.bbox)
                 /\ isPointInShape(mainShapeInfo.shape, getPoints(holeInfo.shape)[1])
             holes == Reverse(SelectSeq(remainingHoles, Taken))
         IN <<[shape |-> mainShapeInfo.shape,
               holes |-> [i \in 1..Len(holes) |-> holes[i].shape]]>>
            \o GroupHolesKeeping(Tail(outers), remainingHoles)

\* the forEach over the shapes that are not holes, each taking from
\* remainingHoles, last to first, the holes whose box and first point it contains
RECURSIVE GroupHoles(_, _)
GroupHoles(outers, remainingHoles) ==
    IF outers = <<>> THEN <<>>
    ELSE LET mainShapeInfo == Head(outers)
             Taken(holeInfo) ==
                 /\ BoxContained(holeInfo.bbox, mainShapeInfo.bbox)
                 /\ isPointInShape(mainShapeInfo.shape, getPoints(holeInfo.shape)[1])
             holes == Reverse(SelectSeq(remainingHoles, Taken))
             left == SelectSeq(remainingHoles, LAMBDA h : ~Taken(h))
         IN <<[shape |-> mainShapeInfo.shape,
               holes |-> [i \in 1..Len(holes) |-> holes[i].shape]]>>
            \o GroupHoles(Tail(outers), left)

\* mainShapes of the "grouped" revision
classifyGrouped(contours) ==
    LET shapesWithArea == SortByArea([i \in 1..Len(contours) |-> ShapeInfo(contours[i])])
    IN GroupHoles(SelectSeq(shapesWithArea, LAMBDA x : ~x.isHole),
                  SelectSeq(shapesWithArea, LAMBDA x : x.isHole))

\* mainShape of the "largest" revision; sortedShapes[0] must exist
classifyLargest(contours) ==
    LET sortedShapes == SortByArea([i \in 1..Len(contours) |->
                            [shape |-> contours[i],
                             area |-> Abs(calculateShapeArea(contours[i]))]])
    IN <<[shape |-> sortedShapes[1].shape,
          holes |-> [i \in 1..Len(sortedShapes) - 1 |-> sortedShapes[i + 1].shape]]>>

\* the useMemo body: "grouped" extrudes whatever mainShapes holds and reports
\* no error; "largest" throws on an empty path, and the catch returns no geometry
createGeometries(revision, contours) ==
    IF revision = R_grouped
    THEN [mainShapes |-> classifyGrouped(contours), error |-> FALSE, extruded |-> TRUE]
    ELSE IF contours = <<>>
    THEN [mainShapes |-> <<>>, error |-> TRUE, extruded |-> FALSE]
    ELSE [mainShapes |-> classifyLargest(contours), error |-> FALSE, extruded |-> TRUE]

-----------------------------------------------------------------------------
(* The scale step.  TextModel "grouped": geo.scale(scale, scale, 1), then    *)
(* translate to the centre plus offset; TextModel "largest": translate to    *)
(* the centre, then geo.scale(scale, scale, scale); the App:                 *)
(* textMesh.scale.set(scaleFactor, scaleFactor, 1).  Coordinates are even    *)
(* integers, so that the centre of a bounding box is an integer.             *)

MaxScale == 3

MaxGeo == 2

ScaleSteps == {R_grouped, R_largest, C_App}

GeoCoords == {2 * k : k \in 0..MaxGeo}

\* a geometry: two vertices
Geometries == [1..2 -> GeoCoords \X GeoCoords \X GeoCoords]

\* geo.scale(sx, sy, sz)
scale(vertices, sx, sy, sz) ==
    [k \in 1..Len(vertices) |->
        <<vertices[k][1] * sx, vertices[k][2] * sy, vertices[k][3] * sz>>]

\* geo.translate(tx, ty, tz)
translate(vertices, tx, ty, tz) ==
    [k \in 1..Len(vertices) |->
        <<vertices[k][1] + tx, vertices[k][2] + ty, vertices[k][3] + tz>>]

\* geo.boundingBox.getCenter(center): x and y of the centre
getCenter(vertices) ==
    LET lo(a) == CHOOSE v \in {vertices[k][a] : k \in 1..Len(vertices)} :
                     \A k \in 1..Len(vertices) : v <= vertices[k][a]
        hi(a) == CHOOSE v \in {vertices[k][a] : k \in 1..Len(vertices)} :
                     \A k \in 1..Len(vertices) : v >= vertices[k][a]
    IN [x |-> (lo(1) + hi(1)) \div 2, y |-> (lo(2) + hi(2)) \div 2]

scaleAndCentre(revision, vertices, factor, xOffset) ==
    IF revision = R_grouped
    THEN LET scaled == scale(vertices, factor, factor, 1)
             center == getCenter(scaled)
         IN translate(scaled, 0 - center.x + xOffset, 0 - center.y, 0)
    ELSE IF revision = R_largest
    THEN LET center == getCenter(vertices)
         IN scale(translate(vertices, 0 - center.x, 0 - center.y, 0), factor, factor, factor)
    ELSE scale(vertices, factor, factor, 1)

ClIdle == [stage |-> "parked", revision |-> R_grouped, contours |-> <<>>,
           mainShapes |-> <<>>, error |-> FALSE, extruded |-> FALSE]

GeoIdle == [stage |-> "parked", revision |-> R_grouped, factor |-> 1, xOffset |-> 0,
            vertices |-> <<>>, out |-> <<>>]

-----------------------------------------------------------------------------
(* generateUUID: every digit of the template is replaced by a digit made    *)
(* from one Math.random() draw.  The template is shortened to one digit of  *)
(* each kind, x and y.                                                      *)

MaxRandom == 2

\* the values of Math.random() * 16 | 0
RandomDraws == 0..MaxRandom

UuidTemplate == <<"x", "y">>

\* c === 'x' ? r : (r & 0x3 | 0x8), digit by digit
generateUUID(draws) ==
    [k \in 1..Len(UuidTemplate) |->
        IF UuidTemplate[k] = "x" THEN draws[k] ELSE (draws[k] % 4) + 8]

\* the elements given a p:UUID in one export of a scene of one mesh, in the order
\* of the calls: assembly object, component, build, item, child object
UuidElements == <<"object", "component", "build", "item", "childObject">>

-----------------------------------------------------------------------------
(* fix_fonts.cjs.  A glyph's path `o` is its subpaths, each known by the    *)
(* square bounding box [lo, hi] x [lo, hi] calculateBoundingBox finds, and  *)
(* whether it is written the way fixFontPath writes (`outer z hole z`).     *)
(* A file's content is the glyphs and whether it is indented by two.        *)

MaxSubpaths == 2

Chars == {"O", "i"}

Subpaths ==
    {[lo |-> 0, hi |-> 10], [lo |-> 4, hi |-> 6], [lo |-> 1, hi |-> 9], [lo |-> 20, hi |-> 22]}

GlyphPaths ==
    UNION {[subpaths : [1..n -> Subpaths], spaced : BOOLEAN] : n \in 0..MaxSubpaths}

FontContents == [glyphs : [Chars -> GlyphPaths], indented : BOOLEAN]

NoFile == [glyphs |-> <<>>, indented |-> FALSE]

\* area: (bounds.maxX - bounds.minX) * (bounds.maxY - bounds.minY)
BoundsArea(b) == (b.hi - b.lo) * (b.hi - b.lo)

isPathContained(innerBounds, outerBounds) ==
    innerBounds.lo >= outerBounds.lo /\ innerBounds.hi <= outerBounds.hi

RECURSIVE SortPathInfo(_)
\* pathInfo.sort((a, b) => b.area - a.area): largest first, ties in their order
SortPathInfo(pathInfo) ==
    IF pathInfo = <<>> THEN <<>>
    ELSE LET n == Len(pathInfo)
             top == CHOOSE i \in 1..n :
                        /\ \A j \in 1..n : BoundsArea(pathInfo[j]) <= BoundsArea(pathInfo[i])
                        /\ \A j \in 1..(i - 1) : BoundsArea(pathInfo[j]) < BoundsArea(pathInfo[i])
         IN <<pathInfo[top]>>
            \o SortPathInfo(SubSeq(pathInfo, 1, top - 1) \o SubSeq(pathInfo, top + 1, n))

\* analyzeSubpaths: sizeRatio < 0.3, and sizeRatio > 0.01 && sizeRatio < 0.8
analyzeSubpaths(subpaths) ==
    LET pathInfo == SortPathInfo(subpaths)
        outer == pathInfo[1]
        legitimate(b) ==
            /\ isPathContained(b, outer)
            /\ 10 * BoundsArea(b) < 3 * BoundsArea(outer)
            /\ 100 * BoundsArea(b) > BoundsArea(outer)
            /\ 10 * BoundsArea(b) < 8 * BoundsArea(outer)
    IN [outerBoundary |-> outer,
        legitimateHoles |-> SelectSeq(SubSeq(pathInfo, 2, Len(pathInfo)), legitimate)]

fixFontPath(pathData) ==
    IF Len(pathData.subpaths) <= 1 THEN pathData
    ELSE LET analyzedPaths == analyzeSubpaths(pathData.subpaths)
         IN [subpaths |-> <<analyzedPaths.outerBoundary>> \o analyzedPaths.legitimateHoles,
             spaced |-> TRUE]

\* the glyph loop of fixFontFile: glyph.o = fixedPath, in the parsed fontData itself
fixGlyphs(fontData, targetChars) ==
    [char \in Chars |->
        IF char \in targetChars THEN fixFontPath(fontData[char]) ELSE fontData[char]]

\* JSON.stringify(fontData, null, 2)
stringify(fontData) == [glyphs |-> fontData, indented |-> TRUE]

\* fixFontFile: the backup is written from fontData after the glyph loop
fixFontFile(file, targetChars) ==
    LET fontData == fixGlyphs(file.font.glyphs, targetChars)
    IN IF fontData = file.font.glyphs THEN [file EXCEPT !.lastOp = "fix"]
       ELSE [font |-> stringify(fontData), backup |-> stringify(fontData),
             before |-> file.font, lastOp |-> "fixed"]

\* restoreFontFile: false when there is no backup, else the backup's text is written
restoreFontFile(file) ==
    IF file.backup = NoFile THEN [file EXCEPT !.lastOp = "restore"]
    ELSE [file EXCEPT !.font = file.backup, !.lastOp = "restored"]

FontFileIdle == [font |-> NoFile, backup |-> NoFile, before |-> NoFile, lastOp |-> "parked"]

-----------------------------------------------------------------------------
(* The path command loop of TextModel (the flattener).  Coordinates are in  *)
(* units of 1/4608 of a font unit, so that the points of a curve split in   *)
(* 6 or 8 steps are integers.                                               *)

MaxCommands == 3

steps == 8

qSteps == 6

Unit == (steps * steps * steps * qSteps * qSteps) \div 4

Cmd(type, x, y, x1, y1, x2, y2) ==
    [type |-> type, x |-> x * Unit, y |-> y * Unit, x1 |-> x1 * Unit, y1 |-> y1 * Unit,
     x2 |-> x2 * Unit, y2 |-> y2 * Unit]

\* the path commands a path is made of
PathCommands ==
    {Cmd("M", 0, 0, 0, 0, 0, 0), Cmd("M", 2, 0, 0, 0, 0, 0), Cmd("L", 1, 0, 0, 0, 0, 0),
     Cmd("L", 1, 1, 0, 0, 0, 0), Cmd("Q", 0, 1, 1, 1, 0, 0), Cmd("C", 0, 1, 1, 0, 1, 1),
     Cmd("Z", 0, 0, 0, 0, 0, 0)}

Paths == UNION {[1..n -> PathCommands] : n \in 0..MaxCommands}

\* one coordinate of the i-th point of a cubic curve, t = i / steps
CubicPoint(i, p0, p1, p2, p) ==
    LET mt == steps - i
    IN (mt * mt * mt * p0 + 3 * mt * mt * i * p1 + 3 * mt * i * i * p2 + i * i * i * p)
       \div (steps * steps * steps)

\* one coordinate of the i-th point of a quadratic curve, t = i / qSteps
QuadraticPoint(i, p0, p1, p) ==
    LET mt == qSteps - i
    IN (mt * mt * p0 + 2 * mt * i * p1 + i * i * p) \div (qSteps * qSteps)

\* the body of path.commands.forEach for one command; reading the last point of an
\* empty contour throws a TypeError
flattenCommand(f, cmd) ==
    LET y == 0 - cmd.y
        last == f.currentContour[Len(f.currentContour)]
    IN IF f.thrown THEN f
       ELSE IF cmd.type = "M"
       THEN IF Len(f.currentContour) > 0
            THEN [f EXCEPT !.allContours = Append(@, f.currentContour),
                           !.pushedBy = Append(@, "M"),
                           !.currentContour = <<<<cmd.x, y>>>>]
            ELSE [f EXCEPT !.currentContour = <<<<cmd.x, y>>>>]
       ELSE IF cmd.type = "L"
       THEN [f EXCEPT !.currentContour = Append(@, <<cmd.x, y>>)]
       ELSE IF cmd.type = "C"
       THEN IF Len(f.currentContour) = 0 THEN [f EXCEPT !.thrown = TRUE]
            ELSE [f EXCEPT !.currentContour = @ \o
                     [i \in 1..steps |->
                         <<CubicPoint(i, last[1], cmd.x1, cmd.x2, cmd.x),
                           CubicPoint(i, last[2], 0 - cmd.y1, 0 - cmd.y2, 0 - cmd.y)>>]]
       ELSE IF cmd.type = "Q"
       THEN IF Len(f.currentContour) = 0 THEN [f EXCEPT !.thrown = TRUE]
            ELSE [f EXCEPT !.currentContour = @ \o
                     [i \in 1..qSteps |->
                         <<QuadraticPoint(i, last[1], cmd.x1, cmd.x),
                           QuadraticPoint(i, last[2], 0 - cmd.y1, 0 - cmd.y)>>]]
       ELSE IF Len(f.currentContour) > 0
       THEN [f EXCEPT !.allContours = Append(@, Append(f.currentContour, f.currentContour[1])),
                      !.pushedBy = Append(@, "Z"),
                      !.currentContour = <<>>]
       ELSE f

RECURSIVE forEachCommand(_, _, _)
forEachCommand(f, commands, k) ==
    IF k > Len(commands) THEN f
    ELSE forEachCommand(flattenCommand(f, commands[k]), commands, k + 1)

\* after the loop: `Add any remaining contour`
addRemainingContour(f) ==
    IF ~f.thrown /\ Len(f.currentContour) > 0
    THEN [f EXCEPT !.allContours = Append(@, Append(f.currentContour, f.currentContour[1])),
                   !.pushedBy = Append(@, "end"),
                   !.currentContour = <<>>]
    ELSE f

\* the first pass of the useMemo over path.commands
flatten(commands) ==
    addRemainingContour(
        forEachCommand([currentContour |-> <<>>, allContours |-> <<>>, pushedBy |-> <<>>,
                        thrown |-> FALSE], commands, 1))

FlatIdle ==
    [stage |-> "parked", commands |-> <<>>, allContours |-> <<>>, pushedBy |-> <<>>,
     thrown |-> FALSE]

NoExport ==
    [taken |-> FALSE, result |-> "none", mainModel |-> [objects |-> <<>>, build |-> <<>>],
     objectModels |-> <<>>, modelRels |-> <<>>,
     projectSettings |-> [extruder_colour |-> <<>>, filament_colour |-> <<>>,
                          filament_map |-> <<>>],
     modelSettings |-> <<>>, files |-> {}]

-----------------------------------------------------------------------------
(* Initial states *)

ExportIdle ==
    /\ pc = "idle"
    /\ meshes = <<>>
    /\ trace = <<>>
    /\ result = "none"
    /\ mainModel = [objects |-> <<>>, build |-> <<>>]
    /\ objectModels = <<>>
    /\ modelRels = <<>>
    /\ projectSettings = [extruder_colour |-> <<>>, filament_colour |-> <<>>,
                          filament_map |-> <<>>]
    /\ modelSettings = <<>>
    /\ files = {}
    /\ first = NoExport

\* new ThreeMFExporter(scene, options)
Init ==
    /\ version \in Versions
    /\ upAxis \in UpAxes
    /\ scene \in Scenes
    /\ ExportIdle
    /\ uuids = <<>>
    /\ fontFile = FontFileIdle
    /\ flat = FlatIdle
    /\ xf = XfIdle
    /\ app = AppIdle
    /\ render = RenderIdle
    /\ cl = ClIdle
    /\ geo = GeoIdle

\* the exporter left unconstructed
ExportParked ==
    /\ version = V_assembly
    /\ upAxis = "Y_UP"
    /\ scene = <<>>
    /\ ExportIdle

Coords == (0 - MaxCoord)..MaxCoord

InitTransform ==
    /\ ExportParked
    /\ uuids = <<>>
    /\ fontFile = FontFileIdle
    /\ flat = FlatIdle
    /\ app = AppIdle
    /\ render = RenderIdle
    /\ cl = ClIdle
    /\ geo = GeoIdle
    /\ xf \in [stage : {"in"}, axis : UpAxes, v : Coords \X Coords \X Coords,
               out : {<<0, 0, 0>>}]

InitApp ==
    /\ ExportParked
    /\ uuids = <<>>
    /\ fontFile = FontFileIdle
    /\ flat = FlatIdle
    /\ xf = XfIdle
    /\ app = AppIdle
    /\ render = RenderIdle
    /\ cl = ClIdle
    /\ geo = GeoIdle

\* TextModel about to build the geometry of a path
InitClassify ==
    /\ ExportParked
    /\ uuids = <<>>
    /\ fontFile = FontFileIdle
    /\ flat = FlatIdle
    /\ xf = XfIdle
    /\ app = AppIdle
    /\ render = RenderIdle
    /\ geo = GeoIdle
    /\ cl \in {[ClIdle EXCEPT !.stage = "in", !.revision = r, !.contours = cs] :
                 r \in Revisions, cs \in ContourLists}

\* a geometry about to be scaled
InitScale ==
    /\ ExportParked
    /\ uuids = <<>>
    /\ fontFile = FontFileIdle
    /\ flat = FlatIdle
    /\ xf = XfIdle
    /\ app = AppIdle
    /\ render = RenderIdle
    /\ cl = ClIdle
    /\ geo \in [stage : {"in"}, revision : ScaleSteps, factor : 1..MaxScale,
                 xOffset : {0, 1}, vertices : Geometries, out : {<<>>}]

\* a component mounted with its first inputs, nothing rendered yet
InitRender ==
    /\ ExportParked
    /\ uuids = <<>>
    /\ fontFile = FontFileIdle
    /\ flat = FlatIdle
    /\ xf = XfIdle
    /\ app = AppIdle
    /\ render \in {[RenderIdle EXCEPT !.component = c] : c \in Components}
    /\ cl = ClIdle
    /\ geo = GeoIdle

-----------------------------------------------------------------------------
(* The App changes a mesh's colour between exports *)

\* material.color.setHex(c), done only for a MeshPhongMaterial
SetColor(i, c) ==
    /\ pc = "idle"
    /\ i \in 1..Len(scene)
    /\ scene[i].isMesh
    /\ scene[i].cls = "MeshPhongMaterial"
    /\ scene[i].color # c
    /\ scene' = [scene EXCEPT ![i].color = c]
    /\ UNCHANGED <<version, upAxis, pc, meshes, trace, result, mainModel, objectModels,
                   modelRels, projectSettings, modelSettings, files, xf, app, render, cl, geo, first,
                   uuids, fontFile, flat>>

-----------------------------------------------------------------------------
(* export(), statement by statement.  `meshes` holds references into the      *)
(* scene (indices), so what validation changes is seen by the later stages.  *)

MeshAt(i) == scene[meshes[i]]

Meshes == [i \in 1..Len(meshes) |-> MeshAt(i)]

\* scene.traverse collects every THREE.Mesh
Traverse(sc) == SelectSeq([i \in 1..Len(sc) |-> i], LAMBDA i : sc[i].isMesh)

\* the empty-scene check left out
NoMeshesUnchecked(ms) == FALSE

\* `if (meshes.length === 0) throw new Error('No meshes found in scene')`
NoMeshes(ms) == Len(ms) = 0

\* the validation loop left out of the validating revision
AfterCollectUnvalidated(v) == "mainResources"

\* what follows the empty-scene check: the validation loop in the validating
\* revision, generateMainModelXML in the others
AfterCollect(v) == IF v = V_validating THEN "validate" ELSE "mainResources"

ExportCollect ==
    /\ pc = "idle"
    /\ meshes' = Traverse(scene)
    /\ trace' = Append(trace, "CollectMeshes")
    /\ IF NoMeshes(meshes')
       THEN /\ result' = "Failure"
            /\ pc' = "done"
       ELSE /\ result' = result
            /\ pc' = AfterCollect(version)
    /\ UNCHANGED <<version, upAxis, scene, mainModel, objectModels, modelRels,
                   projectSettings, modelSettings, files, xf, app, render, cl, geo, first,
                   uuids, fontFile, flat>>

ExportValidate ==
    /\ pc = "validate"
    /\ scene' = [i \in 1..Len(scene) |->
                    IF scene[i].isMesh THEN validateAndCleanGeometry(scene[i])
                    ELSE scene[i]]
    /\ trace' = Append(trace, "ValidateGeometry")
    /\ pc' = "mainResources"
    /\ UNCHANGED <<version, upAxis, meshes, result, mainModel, objectModels, modelRels,
                   projectSettings, modelSettings, files, xf, app, render, cl, geo, first,
                   uuids, fontFile, flat>>

ExportMainResources ==
    /\ pc = "mainResources"
    /\ mainModel' = [mainModel EXCEPT !.objects = generateMainResourcesSection(version, Meshes)]
    /\ trace' = Append(trace, "GenerateResourceXML")
    /\ pc' = "mainBuild"
    /\ UNCHANGED <<version, upAxis, scene, meshes, result, objectModels, modelRels,
                   projectSettings, modelSettings, files, xf, app, render, cl, geo, first,
                   uuids, fontFile, flat>>

ExportMainBuild ==
    /\ pc = "mainBuild"
    /\ mainModel' = [mainModel EXCEPT !.build = generateMainBuildSection(version, Meshes)]
    /\ trace' = Append(trace, "GenerateBuildXML")
    /\ pc' = "objects"
    /\ UNCHANGED <<version, upAxis, scene, meshes, result, objectModels, modelRels,
                   projectSettings, modelSettings, files, xf, app, render, cl, geo, first,
                   uuids, fontFile, flat>>

ExportObjects ==
    /\ pc = "objects"
    /\ trace' = Append(trace, "GenerateResourceXML")
    /\ IF VerticesThrow(version, Meshes)
       THEN /\ result' = "Failure"
            /\ pc' = "done"
            /\ UNCHANGED objectModels
       ELSE /\ objectModels' = ObjectDocuments(version, Meshes, upAxis)
            /\ pc' = "metadata"
            /\ UNCHANGED result
    /\ UNCHANGED <<version, upAxis, scene, meshes, mainModel, modelRels,
                   projectSettings, modelSettings, files, xf, app, render, cl, geo, first,
                   uuids, fontFile, flat>>

ExportMetadata ==
    /\ pc = "metadata"
    /\ projectSettings' = generateProjectSettingsXML(version, Meshes)
    /\ modelSettings' = generateModelSettingsXML(version, Meshes)
    /\ modelRels' = generateModelRelsXML(version)
    /\ trace' = Append(trace, "GenerateMetadataXML")
    /\ pc' = "zip"
    /\ UNCHANGED <<version, upAxis, scene, meshes, result, mainModel, objectModels,
                   files, xf, app, render, cl, geo, first, uuids, fontFile, flat>>

ExportZip ==
    /\ pc = "zip"
    /\ files' = PackageParts(version, objectModels)
    /\ result' = "Success"
    /\ trace' = Append(trace, "ZipAndEmit")
    /\ pc' = "done"
    /\ UNCHANGED <<version, upAxis, scene, meshes, mainModel, objectModels, modelRels,
                   projectSettings, modelSettings, xf, app, render, cl, geo, first,
                   uuids, fontFile, flat>>

Next ==
    \/ \E i \in 1..MaxMeshes, c \in Colors : SetColor(i, c)
    \/ ExportCollect
    \/ ExportValidate
    \/ ExportMainResources
    \/ ExportMainBuild
    \/ ExportObjects
    \/ ExportMetadata
    \/ ExportZip

Spec == Init /\ [][Next]_vars

-----------------------------------------------------------------------------
(* A second export of the scene, which the App leaves as it is *)

\* export3MF once more: a new ThreeMFExporter on the same scene; what the
\* export before it produced is kept for comparison
ExportAgain ==
    /\ pc = "done"
    /\ ~first.taken
    /\ first' = [taken |-> TRUE, result |-> result, mainModel |-> mainModel,
                 objectModels |-> objectModels, modelRels |-> modelRels,
                 projectSettings |-> projectSettings, modelSettings |-> modelSettings,
                 files |-> files]
    /\ pc' = "idle"
    /\ meshes' = <<>>
    /\ trace' = <<>>
    /\ result' = "none"
    /\ mainModel' = [objects |-> <<>>, build |-> <<>>]
    /\ objectModels' = <<>>
    /\ modelRels' = <<>>
    /\ projectSettings' = [extruder_colour |-> <<>>, filament_colour |-> <<>>,
                           filament_map |-> <<>>]
    /\ modelSettings' = <<>>
    /\ files' = {}
    /\ UNCHANGED <<version, upAxis, scene, xf, app, render, cl, geo, uuids, fontFile, flat>>

NextTwice ==
    \/ ExportCollect
    \/ ExportValidate
    \/ ExportMainResources
    \/ ExportMainBuild
    \/ ExportObjects
    \/ ExportMetadata
    \/ ExportZip
    \/ ExportAgain

SpecTwice == Init /\ [][NextTwice]_vars

-----------------------------------------------------------------------------
(* transformCoordinates applied to one vertex *)

Transform ==
    /\ xf.stage = "in"
    /\ LET coords == transformCoordinates(xf.axis, xf.v[1], xf.v[2], xf.v[3])
       IN xf' = [xf EXCEPT !.stage = "out", !.out = <<coords.x, coords.y, coords.z>>]
    /\ UNCHANGED <<exportVars, app, render, cl, geo, uuids, fontFile, flat>>

NextTransform == Transform

SpecTransform == InitTransform /\ [][NextTransform]_vars

-----------------------------------------------------------------------------
(* The App: a product is selected, the font loads and the meshes are placed *)

applyProduct(product) ==
    /\ app' = [app EXCEPT !.selectedProduct = product]
    /\ UNCHANGED <<exportVars, xf, render, cl, geo, uuids, fontFile, flat>>

\* loader.load callback; the effect returns early while no product is selected
FontLoaded ==
    /\ app.selectedProduct # NoProduct
    /\ app' = [app EXCEPT !.builtFor = app.selectedProduct,
                          !.textMesh = PlaceText(app.selectedProduct),
                          !.pillMesh = PlacePill(app.selectedProduct)]
    /\ UNCHANGED <<exportVars, xf, render, cl, geo, uuids, fontFile, flat>>

NextApp ==
    \/ \E product \in Products : applyProduct(product)
    \/ FontLoaded

SpecApp == InitApp /\ [][NextApp]_vars

-----------------------------------------------------------------------------
(* Render requests.  A change of an input runs the component's reaction in   *)
(* the same step; a font load started by it resolves or rejects later, in    *)
(* any order.                                                                *)

TextMesh(req) == [kind |-> "text", req |-> req]

BackgroundMesh(req) == [kind |-> "background", req |-> req]

\* scene.remove(ref.current), a no-op while the ref is empty
Remove(sc, mesh) == SelectSeq(sc, LAMBDA x : x # mesh)

\* generateMesh: every child with userData.isTextMesh is removed
clearTextMeshes(sc) == SelectSeq(sc, LAMBDA x : x.kind \notin {"text", "background"})

\* generateTextMesh: scene.add(backgroundMesh); scene.add(group), unless it throws
generateTextMesh(sc, req, throws) ==
    IF throws THEN sc ELSE sc \o <<BackgroundMesh(req), TextMesh(req)>>

\* the dependency list of the effect, or the test of ngOnChanges
Recomputes(component, field, inputs) ==
    IF component = C_ThreeScene THEN inputs.text # ""
    ELSE IF component = C_App THEN field \in {"text", "font", "depth"}
    ELSE field \in {"font", "text"} /\ inputs[field] # "" /\ inputs.text # ""

\* the outcome fields after a render that ended, in success or in a throw
Ended(r, req, throws) ==
    [r EXCEPT !.lastEvent = IF throws THEN "failed" ELSE "ok",
              !.aborted = IF throws THEN @ \cup {req} ELSE @,
              !.lastGood = IF throws THEN r.lastGood
                           ELSE <<BackgroundMesh(req), TextMesh(req)>>]

\* ThreeScene.generateMesh up to `await fontLoader.loadFont`; a cached font
\* resolves before any other effect can run
generateMesh(r, throws) ==
    LET req == Len(r.requests) + 1
        cleared == [r EXCEPT !.requests = Append(r.requests, r.inputs),
                             !.scene = clearTextMeshes(r.scene),
                             !.lastEvent = "request"]
    IN IF r.inputs.font \in r.fontCache
       THEN Ended([cleared EXCEPT !.scene = generateTextMesh(cleared.scene, req, throws)],
                  req, throws)
       ELSE [cleared EXCEPT !.pending = Append(r.pending, req),
                            !.fetched[r.inputs.font] = @ + 1]

\* the App's effect: loader.load is started, the scene is not touched yet
fontLoadEffect(r) ==
    LET req == Len(r.requests) + 1
    IN [r EXCEPT !.requests = Append(r.requests, r.inputs),
                 !.pending = Append(r.pending, req),
                 !.lastEvent = "request"]

\* TextModelComponent.updateGeometry: geometries first, then remove and add
updateGeometry(r, throws) ==
    LET req == Len(r.requests) + 1
        asked == [r EXCEPT !.requests = Append(r.requests, r.inputs)]
        removed == Remove(Remove(r.scene, TextMesh(r.textMeshRef)),
                          BackgroundMesh(r.pillMeshRef))
    IN IF throws THEN Ended(asked, req, TRUE)
       ELSE Ended([asked EXCEPT !.scene = removed \o <<TextMesh(req), BackgroundMesh(req)>>,
                                !.textMeshRef = req, !.pillMeshRef = req],
                  req, FALSE)

\* the loader.load callback of the App: old meshes removed, new ones built, added
\* and stored in the refs
fontLoadCallback(r, req, throws) ==
    LET removed == Remove(Remove(r.scene, TextMesh(r.textMeshRef)),
                          BackgroundMesh(r.pillMeshRef))
    IN IF throws THEN Ended([r EXCEPT !.scene = removed], req, TRUE)
       ELSE Ended([r EXCEPT !.scene = removed \o <<TextMesh(req), BackgroundMesh(req)>>,
                            !.textMeshRef = req, !.pillMeshRef = req],
                  req, FALSE)

WithoutPending(r, k) ==
    [r EXCEPT !.pending = SubSeq(r.pending, 1, k - 1) \o SubSeq(r.pending, k + 1, Len(r.pending))]

\* a prop or state of the component changes and the component reacts
SetInput(field, value, throws) ==
    /\ render.changes < MaxChanges
    /\ value \in InputValues(field)
    /\ value # render.inputs[field]
    /\ LET changed == [render EXCEPT !.inputs[field] = value,
                                     !.changes = render.changes + 1]
           r == [changed EXCEPT !.recomputed =
                     Recomputes(render.component, field, changed.inputs)]
       IN render' = IF ~r.recomputed THEN r
                    ELSE IF r.component = C_ThreeScene THEN generateMesh(r, throws)
                    ELSE IF r.component = C_App THEN fontLoadEffect(r)
                    ELSE updateGeometry(r, throws)
    /\ UNCHANGED <<exportVars, xf, app, cl, geo, uuids, fontFile, flat>>

\* a pending font load ends with a font
FontLoadResolved(k, throws) ==
    /\ k \in 1..Len(render.pending)
    /\ LET req == render.pending[k]
           r == WithoutPending(render, k)
       IN render' =
           IF r.component = C_ThreeScene
           THEN Ended([r EXCEPT !.fontCache = @ \cup {r.requests[req].font},
                                !.scene = generateTextMesh(r.scene, req, throws)],
                      req, throws)
           ELSE fontLoadCallback(r, req, throws)
    /\ UNCHANGED <<exportVars, xf, app, cl, geo, uuids, fontFile, flat>>

\* a failed load that leaves the URL in the cache
FontLoadRejectedCaching(k) ==
    /\ k \in 1..Len(render.pending)
    /\ render' = [WithoutPending(render, k) EXCEPT
                     !.lastEvent = "failed",
                     !.aborted = @ \cup {render.pending[k]},
                     !.rejected = @ \cup {render.pending[k]},
                     !.fontCache = @ \cup {render.requests[render.pending[k]].font}]
    /\ UNCHANGED <<exportVars, xf, app, cl, geo, uuids, fontFile, flat>>

\* a pending font load ends with an error: loadFont rethrows it without a cache
\* entry and generateMesh catches it; the App's loader.load has no error callback
FontLoadRejected(k) ==
    /\ k \in 1..Len(render.pending)
    /\ render' = [WithoutPending(render, k) EXCEPT !.lastEvent = "failed",
                                                   !.aborted = @ \cup {render.pending[k]},
                                                   !.rejected = @ \cup {render.pending[k]}]
    /\ UNCHANGED <<exportVars, xf, app, cl, geo, uuids, fontFile, flat>>

NextRender ==
    \/ \E field \in InputFields : \E value \in InputValues(field), throws \in BOOLEAN :
          SetInput(field, value, throws)
    \/ \E k \in 1..MaxChanges, throws \in BOOLEAN : FontLoadResolved(k, throws)
    \/ \E k \in 1..MaxChanges : FontLoadRejected(k)

SpecRender == InitRender /\ [][NextRender]_vars

-----------------------------------------------------------------------------
(* TextModel builds its geometry *)

UseMemo ==
    /\ cl.stage = "in"
    /\ LET made == createGeometries(cl.revision, cl.contours)
       IN cl' = [cl EXCEPT !.stage = "out", !.mainShapes = made.mainShapes,
                           !.error = made.error, !.extruded = made.extruded]
    /\ UNCHANGED <<exportVars, xf, app, render, geo, uuids, fontFile, flat>>

NextClassify == UseMemo

SpecClassify == InitClassify /\ [][NextClassify]_vars

-----------------------------------------------------------------------------
(* The scale step applied to one geometry *)

ScaleGeometry ==
    /\ geo.stage = "in"
    /\ geo' = [geo EXCEPT !.stage = "out",
                          !.out = scaleAndCentre(geo.revision, geo.vertices, geo.factor,
                                                 geo.xOffset)]
    /\ UNCHANGED <<exportVars, xf, app, render, cl, uuids, fontFile, flat>>

NextScale == ScaleGeometry

SpecScale == InitScale /\ [][NextScale]_vars

-----------------------------------------------------------------------------
(* The p:UUID values of one export *)

\* nothing exported yet, no p:UUID generated
InitUuid ==
    /\ ExportParked
    /\ xf = XfIdle
    /\ app = AppIdle
    /\ render = RenderIdle
    /\ cl = ClIdle
    /\ geo = GeoIdle
    /\ uuids = <<>>
    /\ fontFile = FontFileIdle
    /\ flat = FlatIdle

\* the next element of the export is written with p:UUID = this.generateUUID()
GenerateUUID(draws) ==
    /\ Len(uuids) < Len(UuidElements)
    /\ uuids' = Append(uuids, generateUUID(draws))
    /\ UNCHANGED <<exportVars, xf, app, render, cl, geo, fontFile, flat>>

NextUuid == \E draws \in [1..Len(UuidTemplate) -> RandomDraws] : GenerateUUID(draws)

SpecUuid == InitUuid /\ [][NextUuid]_vars

-----------------------------------------------------------------------------
(* fix_fonts.cjs run on one font file *)

\* a font file in public/fonts, never fixed
InitFontFile ==
    /\ ExportParked
    /\ xf = XfIdle
    /\ app = AppIdle
    /\ render = RenderIdle
    /\ cl = ClIdle
    /\ geo = GeoIdle
    /\ uuids = <<>>
    /\ flat = FlatIdle
    /\ fontFile \in [font : FontContents, backup : {NoFile}, before : {NoFile},
                     lastOp : {"none"}]

\* node fix_fonts.cjs <font-file> [characters]
FixFontFile(targetChars) ==
    /\ fontFile' = fixFontFile(fontFile, targetChars)
    /\ UNCHANGED <<exportVars, xf, app, render, cl, geo, uuids, flat>>

\* node fix_fonts.cjs --restore <font-file>
RestoreFontFile ==
    /\ fontFile' = restoreFontFile(fontFile)
    /\ UNCHANGED <<exportVars, xf, app, render, cl, geo, uuids, flat>>

NextFontFile ==
    \/ \E targetChars \in (SUBSET Chars) \ {{}} : FixFontFile(targetChars)
    \/ RestoreFontFile

SpecFontFile == InitFontFile /\ [][NextFontFile]_vars

-----------------------------------------------------------------------------
(* The flattener run on one path *)

InitFlatten ==
    /\ ExportParked
    /\ xf = XfIdle
    /\ app = AppIdle
    /\ render = RenderIdle
    /\ cl = ClIdle
    /\ geo = GeoIdle
    /\ uuids = <<>>
    /\ fontFile = FontFileIdle
    /\ flat \in [stage : {"in"}, commands : Paths, allContours : {<<>>}, pushedBy : {<<>>},
                 thrown : {FALSE}]

Flatten ==
    /\ flat.stage = "in"
    /\ LET f == flatten(flat.commands)
       IN flat' = [flat EXCEPT !.stage = "out", !.allContours = f.allContours,
                               !.pushedBy = f.pushedBy, !.thrown = f.thrown]
    /\ UNCHANGED <<exportVars, xf, app, render, cl, geo, uuids, fontFile>>

NextFlatten == Flatten

SpecFlatten == InitFlatten /\ [][NextFlatten]_vars

-----------------------------------------------------------------------------
(* Properties *)

Min(a, b) == IF a < b THEN a ELSE b

Max(a, b) == IF a > b THEN a ELSE b

\* the object documents exist: export() is past its object model stage
ObjectsWritten == pc \in {"metadata", "zip"} \/ (pc = "done" /\ result = "Success")

\* the metadata documents exist
MetadataWritten == pc = "zip" \/ (pc = "done" /\ result = "Success")

\* every object of every object model document
WrittenObjects ==
    UNION {{objectModels[n][k] : k \in 1..Len(objectModels[n])} : n \in DOMAIN objectModels}

TriangleInRange(o, t) == \A j \in 1..3 : t[j] \in 0..(Len(o.vertices) - 1)

\* C1: every v1/v2/v3 of every <triangle> of every written object is a vertex
\* index below the number of <vertex> elements of that object.
C1_TriangleIndicesInRange ==
    ObjectsWritten =>
        \A o \in WrittenObjects :
            \A k \in 1..Len(o.triangles) : TriangleInRange(o, o.triangles[k])

SceneHasNoMesh == \A i \in 1..Len(scene) : ~scene[i].isMesh

NothingGenerated ==
    /\ mainModel = [objects |-> <<>>, build |-> <<>>]
    /\ objectModels = <<>>
    /\ modelRels = <<>>
    /\ projectSettings.filament_colour = <<>>
    /\ modelSettings = <<>>
    /\ files = {}

\* C2: with no mesh in the scene export() goes from the mesh collection straight
\* to failure: no Blob, no XML document generated, nothing zipped.
C2_EmptySceneFails ==
    SceneHasNoMesh =>
        /\ pc \in {"idle", "done"}
        /\ result # "Success"
        /\ pc = "done" => result = "Failure"
        /\ NothingGenerated

C2_Witness ==
    /\ Len(scene) > 0
    /\ SceneHasNoMesh
    /\ pc = "done"
    /\ result = "Failure"

C4_XUpAndYUp ==
    /\ (xf.stage = "out" /\ xf.axis = "X_UP") => xf.out = <<xf.v[2], xf.v[3], xf.v[1]>>
    /\ (xf.stage = "out" /\ xf.axis = "Y_UP") => xf.out = xf.v

\* the remap of one point under the configured up-axis
Remapped(axis, p) ==
    LET coords == transformCoordinates(axis, p[1], p[2], p[3])
    IN <<coords.x, coords.y, coords.z>>

\* the points a mesh hands to the writer, before any remap
SourceVertices(v, m) ==
    IF v = V_combined
    THEN IF m.hole THEN createCylinderGeometry(m).vertices
         ELSE IF m.hasPos THEN CombinedVertices(m) ELSE <<>>
    ELSE [k \in 1..m.count |-> Vtx(k - 1)]

\* C5: every vertex written, of every mesh and of the hole cylinder, is the
\* remap of its source point under the configured up-axis.
C5_EveryVertexRemapped ==
    ObjectsWritten =>
        \A n \in DOMAIN objectModels : \A k \in 1..Len(objectModels[n]) :
            LET o == objectModels[n][k]
                src == SourceVertices(version, MeshAt(o.id))
            IN /\ Len(o.vertices) = Len(src)
               /\ \A j \in 1..Len(src) : o.vertices[j] = Remapped(upAxis, src[j])

\* C6: every colour written for mesh i in filament_colour and extruder_colour is
\* the colour of the mesh's material when export() runs.
C6_ColoursFromMaterial ==
    MetadataWritten =>
        \A i \in 1..Len(meshes) :
            /\ i \in DOMAIN projectSettings.filament_colour
                  => projectSettings.filament_colour[i] = getHexString(MeshAt(i).color)
            /\ i \in DOMAIN projectSettings.extruder_colour
                  => projectSettings.extruder_colour[i] = getHexString(MeshAt(i).color)

\* length of the common z range of the placed text and pill (in half units)
SharedZ == Min(app.textMesh.hi, app.pillMesh.hi) - Max(app.textMesh.lo, app.pillMesh.lo)

\* C7: when the meshes were built for a product with overlap > 0, the z ranges
\* of the text mesh and of the pill mesh share an interval of positive length.
C7_PositiveOverlap ==
    (app.textMesh.present /\ app.pillMesh.present /\ app.builtFor.overlap > 0)
        => SharedZ > 0

C7_Witness ==
    /\ app.textMesh.present
    /\ app.pillMesh.present
    /\ app.builtFor.overlap > app.builtFor.backgroundThickness
    /\ SharedZ > 0

\* C8: every <component> of 3D/3dmodel.model names, by p:path and objectid, an
\* object defined in the object model document the path points to.
C8_ComponentsResolve ==
    ObjectsWritten =>
        \A a \in 1..Len(mainModel.objects) :
            \A c \in 1..Len(mainModel.objects[a].components) :
                LET comp == mainModel.objects[a].components[c]
                    n == comp.path[2]
                IN /\ n \in DOMAIN objectModels
                   /\ \E k \in 1..Len(objectModels[n]) : objectModels[n][k].id = comp.objectid

\* C9: every target of 3D/_rels/3dmodel.model.rels is a part of the package, and
\* every 3D/Objects part is the target of exactly one relationship.
C9_RelationshipsMatchParts ==
    (pc = "done" /\ result = "Success") =>
        /\ \A r \in 1..Len(modelRels) : PartOfPath(modelRels[r]) \in files
        /\ \A part \in files :
              part[1] = "3D/Objects/object_" =>
                  Cardinality({r \in 1..Len(modelRels) : PartOfPath(modelRels[r]) = part}) = 1

StageRank(stage) ==
    CASE stage = "CollectMeshes" -> 1
      [] stage = "ValidateGeometry" -> 2
      [] stage = "GenerateResourceXML" -> 3
      [] stage = "GenerateBuildXML" -> 4
      [] stage = "GenerateMetadataXML" -> 5
      [] stage = "ZipAndEmit" -> 6

StageOrder(v) ==
    <<"CollectMeshes">>
    \o (IF v = V_validating THEN <<"ValidateGeometry">> ELSE <<>>)
    \o <<"GenerateResourceXML", "GenerateBuildXML", "GenerateResourceXML",
         "GenerateMetadataXML", "ZipAndEmit">>

IsPrefix(s, t) == Len(s) <= Len(t) /\ \A i \in 1..Len(s) : s[i] = t[i]

AllLoadsCompleted ==
    /\ render.requests # <<>>
    /\ render.pending = <<>>
    /\ render.aborted = {}

\* the inputs a mesh of the scene was built from
BuiltFrom(mesh) == render.requests[mesh.req]

\* C11: once every pending font load has completed, the scene holds meshes, and
\* all of them were built from the inputs of the most recent request, whatever
\* the order in which the loads completed.
C11_LatestRequestWins ==
    AllLoadsCompleted =>
        /\ render.scene # <<>>
        /\ \A i \in 1..Len(render.scene) :
              BuiltFrom(render.scene[i]) = render.requests[Len(render.requests)]

CountKind(kind) == Cardinality({i \in 1..Len(render.scene) : render.scene[i].kind = kind})

\* C12: the scene never holds more than one text object nor more than one
\* background mesh.
C12_OneSetInScene == CountKind("text") <= 1 /\ CountKind("background") <= 1

\* C13: right after a request has aborted, the meshes of the last successful
\* render are still in the scene.
C13_AbortKeepsLastRender ==
    render.lastEvent = "failed" =>
        \A i \in 1..Len(render.lastGood) :
            \E j \in 1..Len(render.scene) : render.scene[j] = render.lastGood[i]

\* C14: the latest change of an input has started a recomputation of the geometry.
C14_ChangeRecomputes == render.recomputed

\* C15: when the classification has yielded no shape, the pipeline has signalled
\* an error and has extruded nothing.
C15_NoShapesIsAnError ==
    (cl.stage = "out" /\ cl.mainShapes = <<>>) => (cl.error /\ ~cl.extruded)

\* C16: every hole attached to a shape has its bounding box within the shape's
\* bounding box and its first point inside the shape by the ray-casting test.
C16_HolesAreContained ==
    cl.stage = "out" =>
        \A i \in 1..Len(cl.mainShapes) :
            \A h \in 1..Len(cl.mainShapes[i].holes) :
                LET outer == cl.mainShapes[i].shape
                    hole == cl.mainShapes[i].holes[h]
                IN /\ BoxContained(Box2(hole), Box2(outer))
                   /\ isPointInShape(outer, getPoints(hole)[1])

\* the outlines that came out as outer boundaries, and those that came out as holes
OuterBoxes(mainShapes) == {mainShapes[i].shape.box : i \in 1..Len(mainShapes)}

HoleBoxes(mainShapes) ==
    UNION {{mainShapes[i].holes[h].box : h \in 1..Len(mainShapes[i].holes)} :
              i \in 1..Len(mainShapes)}

ReversedWinding(contours) ==
    [i \in 1..Len(contours) |-> [contours[i] EXCEPT !.ccw = ~contours[i].ccw]]

\* C17: the same contours drawn in the opposite direction are classified into
\* the same outer boundaries and the same holes.
C17_WindingIndependent ==
    cl.stage = "out" =>
        LET reversed == createGeometries(cl.revision, ReversedWinding(cl.contours)).mainShapes
        IN /\ OuterBoxes(reversed) = OuterBoxes(cl.mainShapes)
           /\ HoleBoxes(reversed) = HoleBoxes(cl.mainShapes)

Disjoint(a, b) == a.x1 < b.x0 \/ b.x1 < a.x0 \/ a.y1 < b.y0 \/ b.y1 < a.y0

\* two or more outlines of glyphs without counters: pairwise disjoint, all drawn
\* in the direction of an outer boundary
DisjointGlyphs ==
    /\ Len(cl.contours) >= 2
    /\ \A i \in 1..Len(cl.contours) : ~cl.contours[i].ccw
    /\ \A i, j \in 1..Len(cl.contours) :
          i # j => Disjoint(cl.contours[i].box, cl.contours[j].box)

\* C18: disjoint glyph outlines without counters come out as two or more shapes,
\* none of which has a hole.
C18_DisjointGlyphsStayApart ==
    (cl.stage = "out" /\ DisjointGlyphs) =>
        /\ Len(cl.mainShapes) >= 2
        /\ \A i \in 1..Len(cl.mainShapes) : cl.mainShapes[i].holes = <<>>

\* C19: the scale step leaves the z of every vertex as it was, and stretches the
\* x and the y distance between any two vertices by one and the same factor.
C19_ScaleLeavesZ ==
    geo.stage = "out" =>
        /\ \A k \in 1..Len(geo.vertices) : geo.out[k][3] = geo.vertices[k][3]
        /\ \A j, k \in 1..Len(geo.vertices) : \A a \in 1..2 :
              geo.out[j][a] - geo.out[k][a] = geo.factor * (geo.vertices[j][a] - geo.vertices[k][a])

\* C20: a second export of the scene writes, for every object, the vertices and
\* triangles the first export wrote, and ends as the first one did, with the same
\* documents and the same parts.
C20_SecondExportIdentical ==
    first.taken =>
        /\ ObjectsWritten => objectModels = first.objectModels
        /\ pc = "done" =>
              /\ result = first.result
              /\ mainModel = first.mainModel
              /\ objectModels = first.objectModels
              /\ modelRels = first.modelRels
              /\ projectSettings = first.projectSettings
              /\ modelSettings = first.modelSettings
              /\ files = first.files

C20_Witness ==
    /\ first.taken
    /\ version = V_validating
    /\ pc = "done"
    /\ result = "Success"
    /\ Len(meshes) = 2
    /\ \E n \in DOMAIN objectModels : \E k \in 1..Len(objectModels[n]) :
          Len(objectModels[n][k].triangles) > 0

\* C21: the p:UUID values generated during one export are pairwise distinct.
C21_UuidsDistinct ==
    \A i, j \in 1..Len(uuids) : i # j => uuids[i] # uuids[j]

\* C23: once fixFontFile has modified the file, restoreFontFile brings back the
\* glyphs the file had before the fix, and the backup holds those glyphs.
C23_RestoreUndoesFix ==
    /\ fontFile.lastOp = "fixed" => fontFile.backup.glyphs = fontFile.before.glyphs
    /\ fontFile.lastOp = "restored" /\ fontFile.before # NoFile
          => fontFile.font.glyphs = fontFile.before.glyphs

\* C26: every contour pushed, by MoveTo, by Close or at the end of the input, ends
\* with its first point.
C26_PushedContoursClosed ==
    flat.stage = "out" =>
        \A k \in 1..Len(flat.allContours) :
            flat.allContours[k][1] = flat.allContours[k][Len(flat.allContours[k])]

\* validation found a triangle with two equal indices in the mesh's index
Degenerate(m) ==
    /\ m.indexed
    /\ \E k \in 1..Len(LoopIndices(m.icount)) :
          LET t == IndexedTriangle(m, LoopIndices(m.icount)[k])
          IN t[1] = t[2] \/ t[2] = t[3] \/ t[1] = t[3]

GeometryKept ==
    /\ Len(scene') = Len(scene)
    /\ \A i \in 1..Len(scene) :
          /\ scene'[i].hasPos = scene[i].hasPos
          /\ scene'[i].count = scene[i].count
          /\ scene'[i].indexed = scene[i].indexed
          /\ scene'[i].icount = scene[i].icount

\* C22: in the validating revision no step changes a mesh's positions or index,
\* export() fails only for a scene without meshes or a mesh without positions, and
\* a successful export has written every triangle of every mesh, degenerate or not.
C22_ValidationNonFatal ==
    /\ [][GeometryKept]_vars
    /\ [](version = V_validating /\ result = "Failure"
            => NoMeshes(meshes) \/ \E i \in 1..Len(meshes) : ~MeshAt(i).hasPos)
    /\ [](version = V_validating /\ result = "Success"
            => \A i \in 1..Len(meshes) :
                  Len(objectModels[3][i].triangles) =
                      Len(LoopIndices(IF MeshAt(i).indexed THEN MeshAt(i).icount
                                      ELSE MeshAt(i).count - 2)))

C22_Witness ==
    /\ version = V_validating
    /\ result = "Success"
    /\ "ValidateGeometry" \in {trace[k] : k \in 1..Len(trace)}
    /\ \E i \in 1..Len(meshes) :
          /\ Degenerate(MeshAt(i))
          /\ Len(objectModels[3][i].triangles) = 2

\* C24: the export holds no object and no part for a hole placeholder mesh.
C24_HolePlaceholderNotExported ==
    /\ ObjectsWritten =>
          \A i \in 1..Len(meshes) :
              MeshAt(i).hole => \A o \in WrittenObjects : o.id # i
    /\ MetadataWritten =>
          \A i \in 1..Len(meshes) :
              MeshAt(i).hole => \A k \in 1..Len(modelSettings) : modelSettings[k].id # i

\* the object a part of the assembly, combined and validating revisions stands for
PartObject(part) == CHOOSE o \in WrittenObjects : o.id = part.id

\* C27: the face_count of every part is the number of <triangle> elements written
\* for the part's object.
C27_FaceCountIsTriangleCount ==
    MetadataWritten =>
        \A k \in 1..Len(modelSettings) :
            modelSettings[k].face_count # Undefined =>
                modelSettings[k].face_count = Len(PartObject(modelSettings[k]).triangles)

\* C28: every extruder number given to a part has an entry in filament_colour and
\* in filament_map.
C28_ExtrudersHaveFilaments ==
    MetadataWritten =>
        \A k \in 1..Len(modelSettings) :
            modelSettings[k].extruder > 0 =>
                /\ modelSettings[k].extruder <= Len(projectSettings.filament_colour)
                /\ modelSettings[k].extruder <= Len(projectSettings.filament_map)

\* how many times the contour c is attached as a hole, over all the shapes
TimesAttached(c) ==
    LET n(k) == Cardinality({i \in 1..Len(cl.mainShapes[k].holes) :
                                cl.mainShapes[k].holes[i] = c})
        RECURSIVE total(_)
        total(k) == IF k = 0 THEN 0 ELSE n(k) + total(k - 1)
    IN total(Len(cl.mainShapes))

\* how many contours of the path are the contour c
TimesGiven(c) == Cardinality({i \in 1..Len(cl.contours) : cl.contours[i] = c})

\* the hole h lies in the shape c by the two tests of the grouping
Contains(c, h) ==
    /\ BoxContained(Box2(h), Box2(c))
    /\ isPointInShape(c, getPoints(h)[1])

\* C25: a hole candidate is attached to one outer shape at most, and the outer
\* shapes are taken largest area first.
C25_HoleAttachedOnce ==
    cl.stage = "out" =>
        /\ \A c \in Contours : TimesAttached(c) <= TimesGiven(c)
        /\ \A k \in 1..(Len(cl.mainShapes) - 1) :
              Abs(calculateShapeArea(cl.mainShapes[k].shape))
                  >= Abs(calculateShapeArea(cl.mainShapes[k + 1].shape))

C25_Witness ==
    /\ cl.stage = "out"
    /\ cl.revision = R_grouped
    /\ Len(cl.mainShapes) = 2
    /\ \E i \in 1..Len(cl.mainShapes[1].holes) :
          /\ Contains(cl.mainShapes[1].shape, cl.mainShapes[1].holes[i])
          /\ Contains(cl.mainShapes[2].shape, cl.mainShapes[1].holes[i])
    /\ cl.mainShapes[2].holes = <<>>

\* the requests whose font load is still pending
PendingRequests == {render.pending[k] : k \in 1..Len(render.pending)}

\* C29: a request whose font load failed has built no mesh, and the cache holds
\* a URL only if a load of that URL has ended with a font.
C29_FailedLoadLeavesNothing ==
    /\ \A req \in render.rejected :
          \A k \in 1..Len(render.scene) : render.scene[k].req # req
    /\ \A url \in render.fontCache :
          \E req \in 1..Len(render.requests) :
              /\ render.requests[req].font = url
              /\ req \notin render.rejected
              /\ req \notin PendingRequests

C29_Witness ==
    /\ render.component = C_ThreeScene
    /\ \E req \in render.rejected :
          /\ render.requests[req].font \notin render.fontCache
          /\ \E later \in PendingRequests :
                /\ later > req
                /\ render.requests[later].font = render.requests[req].font

\* C30: while no load has failed, no URL is fetched more than once.
C30_FetchedOnce ==
    render.rejected = {} => \A url \in Fonts : render.fetched[url] <= 1

====
